---- MODULE Spec2Model ----
(***************************************************************************)
(* Focus-session countdown of the focus screen (src/app/(tabs)/focus.tsx): *)
(* the React state of FocusScreen, its refs, the per-second interval       *)
(* effect, the AppState listener and the button handlers.                  *)
(*                                                                         *)
(* Time is the wall clock in milliseconds (Date.now()), observed at the    *)
(* resolution of the countdown, one interval period.  In the foreground    *)
(* the interval callback runs when it is due, so time passes there one     *)
(* tick at a time; out of the foreground the timers may be suspended, so   *)
(* time may pass without a tick and an overdue callback runs late.  Touch  *)
(* handlers run only while the app is in the foreground.                   *)
(* Optional values (null or a value) are sequences of length 0 or 1.       *)
(* selectedDuration is kept in half minutes because the duration table     *)
(* holds 0.5.                                                              *)
(*                                                                         *)
(* Spec is the countdown of the mounted screen.  AudioSpec is AudioService *)
(* (src/utils/audio.ts) with the completion flow that calls it, one call   *)
(* at a time on either platform, with every awaited platform call free to  *)
(* reject.  RewardSpec is the reward modal of the focus screen.            *)
(* StorageSpec is StorageService (src/unnamed/part_007) over AsyncStorage, *)
(* with the loadData that reads it.  TimerSpec is the background timer of  *)
(* AudioService.  RaceSpec follows the asynchronous methods of             *)
(* AudioService from await to await.  LiveSpec is the countdown in the     *)
(* foreground with its completion flow, under the fairness of the timers.  *)
(***************************************************************************)
EXTENDS Integers, Sequences, FiniteSets, TLC

\* ---------------------------------------------------------------- bounds
MaxSeconds == 32        \* the clock stops after this many seconds
NumDurations == 1       \* how many entries of the duration table can be chosen
MaxCalls == 3           \* the completion counter saturates here
MaxAway == 2            \* longest stay out of the foreground, in seconds
MaxObjects == 3         \* how many audio objects can exist at a time
MaxActivities == 3      \* how many reward activities the user may have saved
MaxSounds == 2          \* how many custom sounds the user may upload
MaxTimers == 3          \* how many times startBackgroundTimer is called
MaxDuration == 2        \* longest background timer, in seconds
MaxCompletions == 2     \* how many onComplete calls of one timer are followed
MaxInFlight == 2        \* asynchronous AudioService calls in flight at once

\* ------------------------------------------------------- program constants
IntervalMs == 1000      \* setInterval(..., 1000)
SecondsPerMinute == 60  \* selectedDuration * 60

\* a duration of m minutes, in half minutes
HalfMinutes(m) == 2 * m
InitialDuration == HalfMinutes(25)   \* useState(25)

Null == <<>>
Some(x) == <<x>>
IsNull(o) == o = <<>>
Val(o) == o[1]

Min(a, b) == IF a <= b THEN a ELSE b
Max(a, b) == IF a >= b THEN a ELSE b

\* the `value` column of `durations`, in half minutes
durations == <<1, HalfMinutes(1), HalfMinutes(5), HalfMinutes(10), HalfMinutes(15),
               HalfMinutes(25), HalfMinutes(30), HalfMinutes(45), HalfMinutes(60)>>

\* duration * 60 for a duration given in half minutes
DurationSeconds(d) == (d * SecondsPerMinute) \div 2

\* the task labels typed: empty, blank, and a padded word
TaskTexts == {<<>>, <<" ", " ">>, <<" ", "a", " ">>}

\* String.prototype.trim on a label made of spaces and letters
RECURSIVE TrimStart(_)
TrimStart(s) == IF s = <<>> THEN s
                ELSE IF Head(s) = " " THEN TrimStart(Tail(s)) ELSE s
RECURSIVE TrimEnd(_)
TrimEnd(s) == IF s = <<>> THEN s
              ELSE IF s[Len(s)] = " " THEN TrimEnd(SubSeq(s, 1, Len(s) - 1)) ELSE s
\* variant: the label is tested untrimmed
Trim_none(s) == s
Trim(s) == TrimEnd(TrimStart(s))

AppStates == {"active", "inactive", "background"}
\* appState.match(/inactive|background/)
MatchesInactiveOrBackground(s) == s \in {"inactive", "background"}

VARIABLES
    task,                 \* useState('')
    timeLeft,             \* useState(25 * 60)
    isRunning,            \* useState(false)
    selectedDuration,     \* useState(25), in half minutes
    intervalRef,          \* useRef(null): Null or Some(time the interval is due)
    appState,             \* useRef(AppState.currentState)
    backgroundStartTime,  \* useRef(null): Null or Some(Date.now())
    keepAwake,            \* whether the keep-awake of expo-keep-awake is active
    alert,                \* the alert the last touch handler raised, "none" when it raised none
    mounted,              \* whether FocusScreen is mounted
    now,                  \* Date.now()
    \* observations for the properties
    completeCalls,        \* handleTimerComplete calls since timeLeft was last set from a duration
    lastEvent,            \* the last handler that ran
    session,              \* Null or Some([d, ticks, completions]): the run since the last start, while only ticks followed it
    period,               \* Null or Some(record): the last stay out of the foreground, until the next tick or touch
    keepAwakeLog,         \* [held, calls]: the keep-awake calls of the last handler and whether it was held before them
    \* AudioService (src/utils/audio.ts) and the completion flow
    platformOS,           \* Platform.OS: "web" or "mobile"
    sound,                \* AudioService.sound: Null or Some(audio object)
    objects,              \* the audio objects: "free", "loaded", "playing", "looping" or "beep"
    isTestingSound,       \* AudioService.isTestingSound
    cascade,              \* what the last AudioService call did
    activities,           \* useState([]): the ids of the reward activities
    currentActivity,      \* useState(null): Null or Some(activity id)
    showBreakModal,       \* useState(false)
    \* StorageService (src/unnamed/part_007) and the sound loadData selects
    store,                \* AsyncStorage: for each key Null or Some(stored item)
    ret,                  \* the last StorageService call: its arguments, failures and what it returned
    screenSound,          \* useState(null) selectedSound of FocusScreen: Null or Some(SoundOption)
    \* the background timer of AudioService and its calls in flight
    backgroundTimer,      \* AudioService.backgroundTimer: Null or Some(index in timers)
    timers,               \* the intervals startBackgroundTimer installed: [duration, cleared, completions]
    inFlight,             \* the asynchronous AudioService calls that have not returned: [op, pc, target]
    quiet                 \* whether the user has stopped touching the screen

vars == <<task, timeLeft, isRunning, selectedDuration, intervalRef, appState,
          backgroundStartTime, keepAwake, alert, mounted, now, completeCalls,
          lastEvent, session, period, keepAwakeLog, platformOS, sound, objects,
          isTestingSound, cascade, activities, currentActivity, showBreakModal,
          store, ret, screenSound, backgroundTimer, timers, inFlight, quiet>>

screenVars == <<task, timeLeft, isRunning, selectedDuration, intervalRef, appState,
                backgroundStartTime, keepAwake, mounted, now, completeCalls,
                session, period, keepAwakeLog>>
storageVars == <<store, ret, screenSound>>
audioVars == <<platformOS, sound, objects, isTestingSound, cascade, activities,
               currentActivity, showBreakModal>>
timerVars == <<backgroundTimer, timers>>
serviceVars == <<audioVars, storageVars, timerVars, inFlight, quiet>>

\* ------------------------------------------------------------ the effects
\* The body of the interval effect: it runs after a render in which isRunning
\* or timeLeft changed, after its cleanup cleared the previous interval.
EffectArms(running, time) == running /\ time > 0

\* intervalRef after the effect ran at time t
\* variant: the effect leaves the interval installed when it arms none
TickEffect_keeps(oldRunning, oldTime, running, time, ref, t) ==
    IF oldRunning = running /\ oldTime = time THEN ref
    ELSE IF EffectArms(running, time) THEN Some(t + IntervalMs)
    ELSE ref
TickEffect(oldRunning, oldTime, running, time, ref, t) ==
    IF oldRunning = running /\ oldTime = time THEN ref
    ELSE IF EffectArms(running, time) THEN Some(t + IntervalMs)
    ELSE Null

\* activateKeepAwakeAsync / deactivateKeepAwake of the same effect
\* variant: the effect does not deactivate when it arms no interval
KeepAwakeEffect_leaks(oldRunning, oldTime, running, time, held) ==
    IF oldRunning = running /\ oldTime = time THEN held
    ELSE IF EffectArms(running, time) THEN TRUE
    ELSE held
KeepAwakeEffect(oldRunning, oldTime, running, time, held) ==
    IF oldRunning = running /\ oldTime = time THEN held
    ELSE EffectArms(running, time)

\* the keep-awake calls of one run of the effect
EffectCalls(oldRunning, oldTime, running, time) ==
    IF oldRunning = running /\ oldTime = time THEN <<>>
    ELSE IF EffectArms(running, time) THEN <<"activate">>
    ELSE <<"deactivate">>

\* the updater of the interval callback: [time, complete]
\* variant: completion is tested with newTime < 0
TickUpdater_late(prevTime) ==
    LET newTime == prevTime - 1
    IN IF newTime < 0 THEN [time |-> 0, complete |-> TRUE]
       ELSE [time |-> newTime, complete |-> FALSE]
TickUpdater(prevTime) ==
    LET newTime == prevTime - 1
    IN IF newTime <= 0 THEN [time |-> 0, complete |-> TRUE]
       ELSE [time |-> newTime, complete |-> FALSE]

\* the updater of the foreground compensation: [time, complete]
CompensationUpdater(prevTime, timeInBackground) ==
    LET newTime == Max(0, prevTime - timeInBackground)
    IN [time |-> newTime, complete |-> newTime <= 0]

\* isRunning as handleAppStateChange reads it: the listener is registered once,
\* by the mount effect, so it is the handler of the first render, which closed
\* over the initial useState(false).
\* variant: the listener reads the current isRunning
HandlerIsRunning_live == isRunning
HandlerIsRunning == FALSE

Count(n) == Min(n + 1, MaxCalls)

Foreground == appState = "active"

\* --------------------------------------------------------- observations
SessionTick(complete) ==
    IF IsNull(session) THEN Null
    ELSE Some([Val(session) EXCEPT !.ticks = @ + 1,
                                   !.completions = @ + (IF complete THEN 1 ELSE 0)])
\* A stay out of the foreground: at, timeLeft and running are the clock, the
\* countdown and isRunning when the app left the foreground, ticks the interval
\* callbacks that ran since, again whether the stay before it began at that
\* same instant.  elapsed is -1 during the stay; the return to the foreground sets
\* it to the whole seconds the stay lasted, comp to the seconds that return
\* took off timeLeft and fired to whether it called handleTimerComplete.
PeriodOpen == ~IsNull(period) /\ Val(period).elapsed = -1
PeriodClosed == ~IsNull(period) /\ Val(period).elapsed >= 0
PeriodTick == IF PeriodOpen THEN Some([Val(period) EXCEPT !.ticks = @ + 1])
              ELSE Null

\* the keep-awake calls of a handler: the deactivateKeepAwake of
\* handleTimerComplete when it ran, then those of the effect after the render
KeepAwakeCalls(complete, oldRunning, oldTime, running, time, held) ==
    [held |-> held,
     calls |-> (IF complete THEN <<"deactivate">> ELSE <<>>)
               \o EffectCalls(oldRunning, oldTime, running, time)]

\* the clock may reach t: the run is not over and the stay out of the
\* foreground is not longer than MaxAway
ClockMayReach(t) ==
    /\ t <= MaxSeconds * IntervalMs
    /\ IF PeriodOpen THEN t - Val(period).at <= MaxAway * IntervalMs ELSE TRUE

\* ---------------------------------------------------------------- Init
ScreenInit ==
    /\ task = <<>>
    /\ timeLeft = DurationSeconds(InitialDuration)
    /\ isRunning = FALSE
    /\ selectedDuration = InitialDuration
    /\ intervalRef = Null
    /\ appState = "active"
    /\ backgroundStartTime = Null
    /\ keepAwake = FALSE
    /\ alert = "none"
    /\ mounted = TRUE
    /\ now = IntervalMs
    /\ completeCalls = 0
    /\ lastEvent = "mount"
    /\ session = Null
    /\ period = Null
    /\ keepAwakeLog = [held |-> FALSE, calls |-> <<"deactivate">>]

\* no AudioService call was made yet
NoCall == [call |-> "none", applicable |-> FALSE, custom |-> "skipped", tone |-> "none",
           vibrated |-> FALSE, notify |-> "none", threw |-> FALSE, unhandled |-> FALSE,
           audioFails |-> FALSE, reward |-> "none"]

\* the static fields of AudioService and the reward state of FocusScreen
\* AsyncStorage with no key set
EmptyStore == [activities |-> Null, customSounds |-> Null, selectedSound |-> Null,
               customSound |-> Null, language |-> Null]
NoReturn == [op |-> "none", arg |-> Null, failed |-> FALSE, threw |-> FALSE,
             value |-> Null, readLegacy |-> FALSE]

\* a slot for an asynchronous AudioService call, with no call in it
Idle == [op |-> "none", pc |-> "done", target |-> Null]

ServiceInit ==
    /\ backgroundTimer = Null
    /\ timers = <<>>
    /\ inFlight = [c \in 1..MaxInFlight |-> Idle]
    /\ quiet = FALSE
    /\ store = EmptyStore
    /\ ret = NoReturn
    /\ screenSound = Null
    /\ sound = Null
    /\ objects = [i \in 1..MaxObjects |-> "free"]
    /\ isTestingSound = FALSE
    /\ cascade = NoCall
    /\ currentActivity = Null
    /\ showBreakModal = FALSE

Init ==
    /\ ScreenInit
    /\ ServiceInit
    /\ platformOS = "mobile"
    /\ activities = <<>>

\* -------------------------------------------------------------- actions
\* onChangeText={setTask}
setTask(text) ==
    /\ UNCHANGED serviceVars
    /\ mounted /\ Foreground
    /\ text # task
    /\ task' = text
    /\ alert' = "none"
    /\ lastEvent' = "setTask"
    /\ session' = Null
    /\ UNCHANGED <<timeLeft, isRunning, selectedDuration, intervalRef, appState,
                   backgroundStartTime, keepAwake, mounted, now, completeCalls>>
    /\ period' = Null
    /\ keepAwakeLog' = [held |-> keepAwake, calls |-> <<>>]

toggleTimer ==
    /\ UNCHANGED serviceVars
    /\ mounted /\ Foreground
    /\ IF Trim(task) = <<>>
       THEN /\ alert' = "Task Required"
            /\ lastEvent' = "rejected"
            /\ UNCHANGED <<isRunning, intervalRef, backgroundStartTime, keepAwake>>
       ELSE /\ backgroundStartTime' = IF ~isRunning THEN Null ELSE backgroundStartTime
            /\ isRunning' = ~isRunning
            /\ intervalRef' = TickEffect(isRunning, timeLeft, ~isRunning, timeLeft,
                                         intervalRef, now)
            /\ keepAwake' = KeepAwakeEffect(isRunning, timeLeft, ~isRunning, timeLeft,
                                            keepAwake)
            /\ lastEvent' = IF isRunning THEN "pause" ELSE "start"
            /\ alert' = "none"
    /\ session' = IF Trim(task) # <<>> /\ ~isRunning
                  THEN Some([d |-> timeLeft, ticks |-> 0, completions |-> 0])
                  ELSE Null
    /\ UNCHANGED <<task, timeLeft, selectedDuration, appState, mounted, now,
                   completeCalls>>
    /\ period' = Null
    /\ keepAwakeLog' = KeepAwakeCalls(FALSE, isRunning, timeLeft, isRunning', timeLeft,
                                      keepAwake)

\* the reset button is disabled while isRunning
\* variant: the reset button stays enabled while isRunning
resetTimer_enabled ==
    /\ UNCHANGED serviceVars
    /\ mounted /\ Foreground
    /\ isRunning' = FALSE
    /\ timeLeft' = DurationSeconds(selectedDuration)
    /\ backgroundStartTime' = Null
    /\ intervalRef' = Null
    /\ keepAwake' = KeepAwakeEffect(isRunning, timeLeft, FALSE,
                                    DurationSeconds(selectedDuration), keepAwake)
    /\ completeCalls' = 0
    /\ alert' = "none"
    /\ lastEvent' = "reset"
    /\ session' = Null
    /\ UNCHANGED <<task, selectedDuration, appState, mounted, now>>
    /\ period' = Null
    /\ keepAwakeLog' = KeepAwakeCalls(FALSE, isRunning, timeLeft, FALSE, timeLeft',
                                      keepAwake)
resetTimer ==
    /\ UNCHANGED serviceVars
    /\ mounted /\ Foreground
    /\ ~isRunning
    /\ isRunning' = FALSE
    /\ timeLeft' = DurationSeconds(selectedDuration)
    /\ backgroundStartTime' = Null
    /\ intervalRef' = Null
    /\ keepAwake' = KeepAwakeEffect(isRunning, timeLeft, FALSE,
                                    DurationSeconds(selectedDuration), keepAwake)
    /\ completeCalls' = 0
    /\ alert' = "none"
    /\ lastEvent' = "reset"
    /\ session' = Null
    /\ UNCHANGED <<task, selectedDuration, appState, mounted, now>>
    /\ period' = Null
    /\ keepAwakeLog' = KeepAwakeCalls(FALSE, isRunning, timeLeft, FALSE, timeLeft',
                                      keepAwake)

\* variant: the handler does not test isRunning
handleDurationSelect_always(duration) ==
    /\ UNCHANGED serviceVars
    /\ mounted /\ Foreground
    /\ IF TRUE
       THEN /\ selectedDuration' = duration
            /\ timeLeft' = DurationSeconds(duration)
            /\ completeCalls' = 0
       ELSE UNCHANGED <<selectedDuration, timeLeft, completeCalls>>
    /\ intervalRef' = TickEffect(isRunning, timeLeft, isRunning, timeLeft', intervalRef, now)
    /\ keepAwake' = KeepAwakeEffect(isRunning, timeLeft, isRunning, timeLeft', keepAwake)
    /\ alert' = "none"
    /\ lastEvent' = "select"
    /\ session' = Null
    /\ UNCHANGED <<task, isRunning, appState, backgroundStartTime, mounted, now>>
    /\ period' = Null
    /\ keepAwakeLog' = KeepAwakeCalls(FALSE, isRunning, timeLeft, isRunning, timeLeft',
                                      keepAwake)
handleDurationSelect(duration) ==
    /\ UNCHANGED serviceVars
    /\ mounted /\ Foreground
    /\ IF ~isRunning
       THEN /\ selectedDuration' = duration
            /\ timeLeft' = DurationSeconds(duration)
            /\ completeCalls' = 0
       ELSE UNCHANGED <<selectedDuration, timeLeft, completeCalls>>
    /\ intervalRef' = TickEffect(isRunning, timeLeft, isRunning, timeLeft', intervalRef, now)
    /\ keepAwake' = KeepAwakeEffect(isRunning, timeLeft, isRunning, timeLeft', keepAwake)
    /\ alert' = "none"
    /\ lastEvent' = "select"
    /\ session' = Null
    /\ UNCHANGED <<task, isRunning, appState, backgroundStartTime, mounted, now>>
    /\ period' = Null
    /\ keepAwakeLog' = KeepAwakeCalls(FALSE, isRunning, timeLeft, isRunning, timeLeft',
                                      keepAwake)

\* the interval callback, with the render and the effect that follow it, and
\* handleTimerComplete up to its first await
\* variant: an interval that counts down for as long as isRunning holds
Tick_naive ==
    /\ UNCHANGED serviceVars
    /\ mounted
    /\ isRunning
    /\ ClockMayReach(now + IntervalMs)
    /\ now' = now + IntervalMs
    /\ timeLeft' = timeLeft - 1
    /\ lastEvent' = "tick"
    /\ session' = SessionTick(FALSE)
    /\ period' = PeriodTick
    /\ keepAwakeLog' = [held |-> keepAwake, calls |-> <<>>]
    /\ UNCHANGED <<task, isRunning, selectedDuration, intervalRef, appState,
                   backgroundStartTime, keepAwake, alert, mounted, completeCalls>>
Tick ==
    /\ UNCHANGED serviceVars
    /\ mounted
    /\ ~IsNull(intervalRef)
    /\ ClockMayReach(Max(now, Val(intervalRef)))
    /\ now' = Max(now, Val(intervalRef))
    /\ LET r == TickUpdater(timeLeft)
           running == IF r.complete THEN FALSE ELSE isRunning
       IN /\ timeLeft' = r.time
          /\ isRunning' = running
          /\ backgroundStartTime' = IF r.complete THEN Null ELSE backgroundStartTime
          /\ completeCalls' = IF r.complete THEN Count(completeCalls) ELSE completeCalls
          /\ intervalRef' = TickEffect(isRunning, timeLeft, running, r.time, intervalRef,
                                       now')
          /\ keepAwake' = KeepAwakeEffect(isRunning, timeLeft, running, r.time,
                                          IF r.complete THEN FALSE ELSE keepAwake)
          /\ lastEvent' = IF r.complete THEN "complete" ELSE "tick"
          /\ session' = SessionTick(r.complete)
          /\ keepAwakeLog' = KeepAwakeCalls(r.complete, isRunning, timeLeft, running,
                                            r.time, keepAwake)
    /\ period' = PeriodTick
    /\ UNCHANGED <<task, selectedDuration, appState, alert, mounted>>

\* what a compensation of timeInBackground seconds does: the setTimeLeft
\* updater, handleTimerComplete up to its first await, the render and the effect
Compensate(timeInBackground) ==
    LET r == CompensationUpdater(timeLeft, timeInBackground)
        running == IF r.complete THEN FALSE ELSE isRunning
    IN /\ timeLeft' = r.time
       /\ isRunning' = running
       /\ completeCalls' = IF r.complete THEN Count(completeCalls) ELSE completeCalls
       /\ intervalRef' = TickEffect(isRunning, timeLeft, running, r.time, intervalRef, now)
       /\ keepAwake' = KeepAwakeEffect(isRunning, timeLeft, running, r.time,
                                       IF r.complete THEN FALSE ELSE keepAwake)

\* the AppState 'change' listener
\* variant: reads the current isRunning, compensates on every 'active' event
\* and keeps the timestamp
handleAppStateChange_reuse(nextAppState) ==
    /\ IF nextAppState = "active"
       THEN /\ IF isRunning /\ ~IsNull(backgroundStartTime)
               THEN Compensate((now - Val(backgroundStartTime)) \div 1000)
               ELSE UNCHANGED <<timeLeft, isRunning, completeCalls, intervalRef, keepAwake>>
            /\ UNCHANGED backgroundStartTime
       ELSE /\ backgroundStartTime' =
                   IF MatchesInactiveOrBackground(nextAppState) /\ isRunning
                   THEN Some(now) ELSE backgroundStartTime
            /\ UNCHANGED <<timeLeft, isRunning, completeCalls, intervalRef, keepAwake>>
    /\ appState' = nextAppState
\* variant: reads the current isRunning and keeps the timestamp after the return
handleAppStateChange_keeps(nextAppState) ==
    /\ IF MatchesInactiveOrBackground(appState) /\ nextAppState = "active"
       THEN /\ IF isRunning /\ ~IsNull(backgroundStartTime)
               THEN Compensate((now - Val(backgroundStartTime)) \div 1000)
               ELSE UNCHANGED <<timeLeft, isRunning, completeCalls, intervalRef, keepAwake>>
            /\ UNCHANGED backgroundStartTime
       ELSE /\ backgroundStartTime' =
                   IF MatchesInactiveOrBackground(nextAppState) /\ isRunning
                   THEN Some(now) ELSE backgroundStartTime
            /\ UNCHANGED <<timeLeft, isRunning, completeCalls, intervalRef, keepAwake>>
    /\ appState' = nextAppState
handleAppStateChange(nextAppState) ==
    /\ IF MatchesInactiveOrBackground(appState) /\ nextAppState = "active"
       THEN /\ IF HandlerIsRunning /\ ~IsNull(backgroundStartTime)
               THEN Compensate((now - Val(backgroundStartTime)) \div 1000)
               ELSE UNCHANGED <<timeLeft, isRunning, completeCalls, intervalRef, keepAwake>>
            /\ backgroundStartTime' = Null
       ELSE /\ backgroundStartTime' =
                   IF MatchesInactiveOrBackground(nextAppState) /\ HandlerIsRunning
                   THEN Some(now) ELSE backgroundStartTime
            /\ UNCHANGED <<timeLeft, isRunning, completeCalls, intervalRef, keepAwake>>
    /\ appState' = nextAppState

\* AppState emits 'change' with nextAppState
AppStateChange(nextAppState) ==
    /\ UNCHANGED serviceVars
    /\ mounted
    /\ handleAppStateChange(nextAppState)
    /\ keepAwakeLog' = KeepAwakeCalls(completeCalls' # completeCalls, isRunning, timeLeft,
                                      isRunning', timeLeft', keepAwake)
    /\ lastEvent' = IF ~Foreground /\ nextAppState = "active"
                    THEN "foreground" ELSE "appState"
    /\ session' = Null
    /\ period' = IF Foreground /\ nextAppState # "active"
                 THEN Some([at |-> now, timeLeft |-> timeLeft, running |-> isRunning,
                            ticks |-> 0,
                            again |-> ~IsNull(period) /\ Val(period).at = now,
                            elapsed |-> -1, comp |-> 0, fired |-> FALSE])
                 ELSE IF ~Foreground /\ nextAppState = "active"
                 THEN Some([Val(period) EXCEPT
                                !.elapsed = (now - Val(period).at) \div 1000,
                                !.comp = timeLeft - timeLeft',
                                !.fired = completeCalls' # completeCalls])
                 ELSE IF nextAppState = "active" THEN Null
                 ELSE period
    /\ UNCHANGED <<task, selectedDuration, alert, mounted, now>>

\* the wall clock while the app is out of the foreground
Advance ==
    /\ UNCHANGED serviceVars
    /\ mounted
    /\ ~Foreground
    /\ ClockMayReach(now + IntervalMs)
    /\ now' = now + IntervalMs
    /\ UNCHANGED <<task, timeLeft, isRunning, selectedDuration, intervalRef, appState,
                   backgroundStartTime, keepAwake, alert, mounted, completeCalls,
                   lastEvent, session, period, keepAwakeLog>>

\* FocusScreen unmounts: the cleanup of the interval effect and the cleanup of
\* the mount effect
\* variant: the cleanup of the mount effect does not deactivate the keep-awake
Unmount_leaks ==
    /\ UNCHANGED serviceVars
    /\ mounted
    /\ mounted' = FALSE
    /\ intervalRef' = Null
    /\ lastEvent' = "unmount"
    /\ session' = Null
    /\ period' = Null
    /\ keepAwakeLog' = [held |-> keepAwake, calls |-> <<>>]
    /\ UNCHANGED <<task, timeLeft, isRunning, selectedDuration, appState,
                   backgroundStartTime, keepAwake, alert, now, completeCalls>>
Unmount ==
    /\ UNCHANGED serviceVars
    /\ mounted
    /\ mounted' = FALSE
    /\ intervalRef' = Null
    /\ keepAwake' = FALSE
    /\ lastEvent' = "unmount"
    /\ session' = Null
    /\ period' = Null
    /\ keepAwakeLog' = [held |-> keepAwake, calls |-> <<"deactivate">>]
    /\ UNCHANGED <<task, timeLeft, isRunning, selectedDuration, appState,
                   backgroundStartTime, alert, now, completeCalls>>

Next ==
    \/ \E text \in TaskTexts : setTask(text)
    \/ toggleTimer
    \/ resetTimer
    \/ \E i \in 1..NumDurations : handleDurationSelect(durations[i])
    \/ Tick
    \/ \E nextAppState \in AppStates : AppStateChange(nextAppState)
    \/ Advance
    \/ Unmount

Spec == Init /\ [][Next]_vars

\* ------------------------------------------------------------ AudioService
\* (src/utils/audio.ts), one call at a time, each call run to its end
PlatformOSes == {"web", "mobile"}

\* a SoundOption: isDefault and the optional uri, Null when it has none; a uri
\* is its scheme and the rest
DEFAULT_SOUNDS == <<[isDefault |-> TRUE, uri |-> Null],
                    [isDefault |-> TRUE, uri |-> Null]>>
FileSound == [isDefault |-> FALSE, uri |-> Some(<<"file://", "a.mp3">>)]
BareSound == [isDefault |-> FALSE, uri |-> Some(<<"", "a.mp3">>)]
NoUriSound == [isDefault |-> FALSE, uri |-> Null]
\* the values of a SoundOption | null | undefined argument
SoundOptions == {Null, Some(DEFAULT_SOUNDS[1]), Some(FileSound), Some(BareSound),
                 Some(NoUriSound)}

\* soundOption && !soundOption.isDefault && soundOption.uri
IsCustom(soundOption) ==
    IF IsNull(soundOption) THEN FALSE
    ELSE ~Val(soundOption).isDefault /\ ~IsNull(Val(soundOption).uri)

\* uri.startsWith('file://') || uri.startsWith('content://') || uri.startsWith('http')
UriFormatValid(uri) == uri[1] \in {"file://", "content://", "http"}

\* which awaited platform calls reject during one AudioService call
Failures == [unload : BOOLEAN, load : BOOLEAN, play : BOOLEAN, stop : BOOLEAN,
             notify : BOOLEAN, tone : BOOLEAN]

FreeIds(objs) == {i \in 1..MaxObjects : objs[i] = "free"}
\* the object a constructor returns
NewId(objs) == CHOOSE i \in FreeIds(objs) : \A j \in FreeIds(objs) : i <= j
Audible(objs) == {i \in 1..MaxObjects : objs[i] \in {"playing", "looping", "beep"}}
Loaded(objs) == {i \in 1..MaxObjects : objs[i] # "free"}

\* this.sound.unloadAsync() rejects: on the web this.sound is an
\* HTMLAudioElement, which has no unloadAsync
UnloadThrows(f) == platformOS = "web" \/ f.unload

\* calling the async createBeep throws: an async function returns a promise
\* and never throws to its caller
CreateBeepThrows == FALSE

\* playSystemNotification(): [objects, tone, vibrated, unhandled]
playSystemNotification(objs, f) ==
    IF platformOS = "web"
    THEN IF f.tone
         THEN [objects |-> objs, tone |-> "failed", vibrated |-> FALSE,
               unhandled |-> FALSE]
         ELSE [objects |-> [objs EXCEPT ![NewId(objs)] = "beep"], tone |-> "played",
               vibrated |-> FALSE, unhandled |-> FALSE]
    ELSE IF CreateBeepThrows
         THEN [objects |-> objs, tone |-> "failed", vibrated |-> TRUE,
               unhandled |-> FALSE]
         ELSE IF f.tone
         THEN [objects |-> objs, tone |-> "failed", vibrated |-> FALSE,
               unhandled |-> TRUE]
         ELSE [objects |-> [objs EXCEPT ![NewId(objs)] = "beep"], tone |-> "played",
               vibrated |-> FALSE, unhandled |-> FALSE]

\* the start of playSound: if (this.sound) { try unloadAsync catch; this.sound = null }
UnloadPrevious(objs, snd, f) ==
    IF IsNull(snd) \/ UnloadThrows(f) THEN objs
    ELSE [objs EXCEPT ![Val(snd)] = "free"]

\* the result of a call: the objects, this.sound and what the call did
Outcome(objs, snd, custom, notify, sys) ==
    [objects |-> sys.objects, sound |-> snd,
     log |-> [custom |-> custom, tone |-> sys.tone, vibrated |-> sys.vibrated,
              notify |-> notify, threw |-> FALSE, unhandled |-> sys.unhandled]]
NoTone(objs) == [objects |-> objs, tone |-> "none", vibrated |-> FALSE,
                 unhandled |-> FALSE]

\* playSound(soundOption) from the objects objs and this.sound = snd
playSound(objs, snd, soundOption, f) ==
    LET objs0 == UnloadPrevious(objs, snd, f)
        id == NewId(objs0)
    IN IF platformOS = "web"
       THEN IF IsCustom(soundOption) /\ ~f.play
            THEN Outcome([objs0 EXCEPT ![id] = "playing"], Null, "played", "none",
                         NoTone([objs0 EXCEPT ![id] = "playing"]))
            ELSE Outcome(objs0, Null,
                         IF IsCustom(soundOption) THEN "failed" ELSE "skipped", "none",
                         playSystemNotification(objs0, f))
       ELSE IF ~IsCustom(soundOption)
            THEN Outcome(objs0, Null, "skipped", "none", playSystemNotification(objs0, f))
            ELSE IF ~UriFormatValid(Val(Val(soundOption).uri)) \/ f.load
            THEN Outcome(objs0, Null, "failed", "none", playSystemNotification(objs0, f))
            ELSE IF f.play
            THEN Outcome(objs0, Some(id), "failed", "none",
                         playSystemNotification([objs0 EXCEPT ![id] = "loaded"], f))
            ELSE IF f.notify
            THEN Outcome(objs0, Some(id), "played", "failed",
                         playSystemNotification([objs0 EXCEPT ![id] = "playing"], f))
            ELSE Outcome(objs0, Some(id), "played", "posted",
                         NoTone([objs0 EXCEPT ![id] = "playing"]))

\* what a call logs in cascade
CallLog(call, soundOption, f, log, reward) ==
    [call |-> call, applicable |-> IsCustom(soundOption), custom |-> log.custom,
     tone |-> log.tone, vibrated |-> log.vibrated, notify |-> log.notify,
     threw |-> log.threw, unhandled |-> log.unhandled,
     audioFails |-> f.load /\ f.play /\ f.tone, reward |-> reward]

\* a call that only throws or only releases
Plain(threw) == [custom |-> "skipped", tone |-> "none", vibrated |-> FALSE,
                 notify |-> "none", threw |-> threw, unhandled |-> FALSE]

\* there is room for the objects one call may create
Room(objs) == Cardinality(FreeIds(objs)) >= 2

\* activities.length > 0: there is a reward activity to show
\* variant: the test is activities.length > 1
HasActivities_two(acts) == Len(acts) > 1
HasActivities(acts) == Len(acts) > 0

\* handleTimerComplete after its synchronous start: playSound(selectedSound ||
\* DEFAULT_SOUNDS[0]), whose catch clauses run only if playSound rejects, then
\* the reward modal or the alert
handleTimerComplete(selectedSound, f) ==
    LET soundToPlay == IF IsNull(selectedSound) THEN Some(DEFAULT_SOUNDS[1])
                       ELSE selectedSound
        r == playSound(objects, sound, soundToPlay, f)
    IN /\ Room(UnloadPrevious(objects, sound, f))
       /\ objects' = r.objects
       /\ sound' = r.sound
       /\ lastEvent' = "reward"
       /\ IF HasActivities(activities)
          THEN /\ \E i \in 1..Len(activities) : currentActivity' = Some(activities[i])
               /\ showBreakModal' = TRUE
               /\ alert' = alert
               /\ cascade' = CallLog("playSound", soundToPlay, f, r.log, "modal")
          ELSE /\ alert' = "Focus Session Complete!"
               /\ cascade' = CallLog("playSound", soundToPlay, f, r.log, "alert")
               /\ UNCHANGED <<currentActivity, showBreakModal>>
       /\ UNCHANGED <<screenVars, storageVars, timerVars, inFlight, quiet, platformOS, isTestingSound, activities>>

\* testSound(soundOption): the unload of the previous sound is not guarded, and
\* every failure is thrown on to the caller
testSound(soundOption, f) ==
    LET objs0 == IF IsNull(sound) THEN objects
                 ELSE [objects EXCEPT ![Val(sound)] = "free"]
        id == NewId(objs0)
        sys == playSystemNotification(objs0, f)
    IN /\ Room(objs0)
       /\ lastEvent' = "testSound"
       /\ IF ~IsNull(sound) /\ UnloadThrows(f)
          THEN /\ isTestingSound' = FALSE
               /\ cascade' = CallLog("testSound", soundOption, f, Plain(TRUE), "none")
               /\ UNCHANGED <<objects, sound>>
          ELSE IF IsCustom(soundOption)
          THEN IF (platformOS = "web" /\ f.play) \/ (platformOS # "web" /\ f.load)
               THEN /\ isTestingSound' = FALSE
                    /\ objects' = objs0
                    /\ sound' = Null
                    /\ cascade' = CallLog("testSound", soundOption, f, Plain(TRUE),
                                          "none")
               ELSE /\ isTestingSound' = TRUE
                    /\ objects' = [objs0 EXCEPT ![id] = "looping"]
                    /\ sound' = Some(id)
                    /\ cascade' = CallLog("testSound", soundOption, f,
                                          [Plain(FALSE) EXCEPT !.custom = "played"],
                                          "none")
          ELSE /\ isTestingSound' = TRUE
               /\ objects' = sys.objects
               /\ sound' = Null
               /\ cascade' = CallLog("testSound", soundOption, f,
                                     [Plain(FALSE) EXCEPT !.tone = sys.tone,
                                                          !.vibrated = sys.vibrated,
                                                          !.unhandled = sys.unhandled],
                                     "none")
       /\ UNCHANGED <<screenVars, storageVars, timerVars, inFlight, quiet, alert, platformOS, activities, currentActivity,
                      showBreakModal>>

\* the release of this.sound by stopTestSound and cleanup: pause() on the web,
\* stopAsync() and unloadAsync() elsewhere, then this.sound = null; a rejection
\* is caught by the caller and leaves the rest undone
\* if (this.backgroundTimer) clearInterval(this.backgroundTimer), of
\* stopBackgroundTimer: the interval the field holds stops firing
ClearInterval(tm, timer) ==
    IF IsNull(timer) THEN tm ELSE [tm EXCEPT ![Val(timer)].cleared = TRUE]

Release(call, f) ==
    /\ isTestingSound' = FALSE
    /\ IF IsNull(sound) THEN UNCHANGED <<objects, sound>>
       ELSE IF platformOS = "web"
       THEN objects' = [objects EXCEPT ![Val(sound)] = "free"] /\ sound' = Null
       ELSE IF f.stop THEN UNCHANGED <<objects, sound>>
       ELSE IF f.unload
       THEN objects' = [objects EXCEPT ![Val(sound)] = "loaded"] /\ sound' = sound
       ELSE objects' = [objects EXCEPT ![Val(sound)] = "free"] /\ sound' = Null
    /\ cascade' = CallLog(call, Null, f, Plain(FALSE), "none")
    /\ lastEvent' = call
    /\ IF call = "cleanup"
       THEN /\ timers' = ClearInterval(timers, backgroundTimer)
            /\ backgroundTimer' = Null
       ELSE UNCHANGED timerVars
    /\ UNCHANGED <<screenVars, storageVars, inFlight, quiet, alert, platformOS,
                   activities, currentActivity, showBreakModal>>

stopTestSound(f) == Release("stopTestSound", f)

cleanup(f) == Release("cleanup", f)

\* a cue that does not loop plays to its end: a sound of expo-av stays loaded,
\* an audio element of the web is dropped
CueEnds(id) ==
    /\ objects[id] = "playing"
    /\ objects' = [objects EXCEPT ![id] = IF platformOS = "web" THEN "free"
                                         ELSE "loaded"]
    /\ lastEvent' = "cueEnds"
    /\ UNCHANGED <<screenVars, storageVars, timerVars, inFlight, quiet, alert, platformOS, sound, isTestingSound, cascade,
                   activities, currentActivity, showBreakModal>>

\* the fallback tone ends: the setTimeout of createBeep unloads it after a
\* second, the oscillators of the web stop
BeepTimeout(id) ==
    /\ objects[id] = "beep"
    /\ objects' = [objects EXCEPT ![id] = "free"]
    /\ lastEvent' = "beepTimeout"
    /\ UNCHANGED <<screenVars, storageVars, timerVars, inFlight, quiet, alert, platformOS, sound, isTestingSound, cascade,
                   activities, currentActivity, showBreakModal>>

\* FocusScreen and the settings screen on one platform, with the activities
\* that loadData found
AudioInit ==
    /\ ScreenInit
    /\ ServiceInit
    /\ platformOS \in PlatformOSes
    /\ activities \in {<<>>, <<1>>}

AudioNext ==
    \/ \E o \in SoundOptions, f \in Failures : handleTimerComplete(o, f)
    \/ \E o \in SoundOptions, f \in Failures : testSound(o, f)
    \/ \E f \in Failures : stopTestSound(f)
    \/ \E f \in Failures : cleanup(f)
    \/ \E id \in 1..MaxObjects : CueEnds(id)
    \/ \E id \in 1..MaxObjects : BeepTimeout(id)

AudioSpec == AudioInit /\ [][AudioNext]_vars

\* ---------------------------------------------------------- reward modal
\* the activity lists loadData may find: the ids of the saved activities, which
\* are distinct (activity_<time>_<random>, legacy_<index>_<time>)
RECURSIVE Pools(_)
Pools(n) ==
    IF n = 0 THEN {<<>>}
    ELSE Pools(n - 1) \cup
         {Append(p, id) : p \in {q \in Pools(n - 1) : Len(q) = n - 1},
                          id \in 1..MaxActivities}
ActivityPools == {p \in Pools(MaxActivities) :
                     \A i, j \in 1..Len(p) : i # j => p[i] # p[j]}

\* setActivities(loadedActivities) of loadData, which the mount effect calls
loadData(loadedActivities) ==
    /\ activities = <<>>
    /\ activities' = loadedActivities
    /\ lastEvent' = "loadData"
    /\ UNCHANGED <<screenVars, storageVars, timerVars, inFlight, quiet, alert, platformOS, sound, objects, isTestingSound,
                   cascade, currentActivity, showBreakModal>>

\* the activity the do-while loop of getNewActivity may leave with
\* variant: one draw, with no loop
Redraw_once(a) == TRUE
Redraw(a) == IF IsNull(currentActivity) THEN TRUE ELSE a # Val(currentActivity)

\* onNewActivity of the break modal
getNewActivity ==
    /\ showBreakModal
    /\ IF Len(activities) > 1
       THEN \E i \in 1..Len(activities) :
                /\ Redraw(activities[i])
                /\ currentActivity' = Some(activities[i])
       ELSE UNCHANGED currentActivity
    /\ lastEvent' = "getNewActivity"
    /\ UNCHANGED <<screenVars, storageVars, timerVars, inFlight, quiet, alert, platformOS, sound, objects, isTestingSound,
                   cascade, activities, showBreakModal>>

\* onClose of the break modal
onClose ==
    /\ showBreakModal
    /\ showBreakModal' = FALSE
    /\ lastEvent' = "onClose"
    /\ UNCHANGED <<screenVars, storageVars, timerVars, inFlight, quiet, alert, platformOS, sound, objects, isTestingSound,
                   cascade, activities, currentActivity>>

NoFailure == [unload |-> FALSE, load |-> FALSE, play |-> FALSE, stop |-> FALSE,
              notify |-> FALSE, tone |-> FALSE]

RewardInit ==
    /\ ScreenInit
    /\ ServiceInit
    /\ platformOS = "mobile"
    /\ activities = <<>>

RewardNext ==
    \/ \E p \in ActivityPools : loadData(p)
    \/ handleTimerComplete(Null, NoFailure)
    \/ getNewActivity
    \/ onClose
    \/ \E id \in 1..MaxObjects : BeepTimeout(id)

RewardSpec == RewardInit /\ [][RewardNext]_vars

\* ----------------------------------------------------------- StorageService
\* src/unnamed/part_007, lines 225-523: the StorageService that has the
\* SoundOption list (the module focus.tsx and the settings screen import as
\* '@/utils/storage').  Each method runs as one step; what AsyncStorage does
\* in it is drawn from StoreFailures.  The background image, timer state and
\* category keys are left out: no method modelled here reads or writes them.

\* a stored string that JSON.parse rejects
Unparsable == [parses |-> FALSE, data |-> <<>>]
\* JSON.stringify(x), as JSON.parse reads it back
Json(x) == [parses |-> TRUE, data |-> x]

\* AsyncStorage rejects getItem (get) or setItem and removeItem (set)
StoreFailures == [get : BOOLEAN, set : BOOLEAN]
NoStoreFailure == [get |-> FALSE, set |-> FALSE]

\* a call that returned v, and one whose exception reached the caller
Normal(v, st) == [threw |-> FALSE, value |-> v, store |-> st]
Thrown(st) == [threw |-> TRUE, value |-> Null, store |-> st]

\* await AsyncStorage.getItem(key), setItem(key, v) and removeItem(key)
getItem(st, key, f) == IF f.get THEN Thrown(st) ELSE Normal(st[key], st)
setItem(st, key, v, f) ==
    IF f.set THEN Thrown(st) ELSE Normal(Null, [st EXCEPT ![key] = Some(v)])
removeItem(st, key, f) ==
    IF f.set THEN Thrown(st) ELSE Normal(Null, [st EXCEPT ![key] = Null])

\* JSON.parse(item)
Parse(item, st) == IF item.parses THEN Normal(item.data, st) ELSE Thrown(st)

\* try { body } catch (error) { console.error(...); return default }
\* variant: the exception is thrown again
Catch_rethrows(body, default) == body
Catch(body, default) == IF body.threw THEN Normal(default, body.store) ELSE body

\* Activity[] as stored: the ids of the activities, or the names of the
\* legacy format (an array of strings); [] is an array of neither
ActivityList(strings, items) == [strings |-> strings, items |-> items]
NoActivities == ActivityList(FALSE, <<>>)
\* the lists the activities screen saves here: none, or one activity in
\* either format
ActivityLists == {NoActivities} \cup {ActivityList(s, <<1>>) : s \in BOOLEAN}

\* the ids of SoundOptions: 'default_bell', 'legacy_custom', `custom_${Date.now()}`
DefaultId == <<"default_bell", 0>>
LegacyId == <<"legacy_custom", 0>>
CustomId(t) == <<"custom_", t>>
\* the uri of an uploaded file and the uri under the legacy key
UploadUri == <<"file://", "a.mp3">>
LegacyUri == <<"file://", "old.mp3">>
StoredDefault == [id |-> DefaultId, isDefault |-> TRUE, uri |-> Null]
CustomSound(t) == [id |-> CustomId(t), isDefault |-> FALSE, uri |-> Some(UploadUri)]
\* legacySoundOption of loadData
LegacySoundOption(legacySound) ==
    [id |-> LegacyId, isDefault |-> FALSE, uri |-> Some(legacySound)]
\* the sounds the settings screen saves as the selected one
StoredSounds == {StoredDefault, CustomSound(1)}
\* language codes; '' is a stored string that is falsy
Languages == {"", "es"}

saveActivities(st, acts, f) ==
    Catch(setItem(st, "activities", Json(acts), f), Null)

getActivities(st, f) ==
    Catch(LET activities_ == getItem(st, "activities", f)
          IN IF activities_.threw THEN activities_
             ELSE IF IsNull(activities_.value) THEN Normal(NoActivities, st)
             ELSE LET parsed == Parse(Val(activities_.value), st)
                  IN IF parsed.threw THEN parsed
                     ELSE IF parsed.value.strings /\ Len(parsed.value.items) > 0
                     THEN LET converted == ActivityList(FALSE, parsed.value.items)
                              saved == saveActivities(st, converted, f)
                          IN IF saved.threw THEN saved
                             ELSE Normal(converted, saved.store)
                     ELSE parsed,
          NoActivities)

getCustomSounds(st, f) ==
    Catch(LET sounds == getItem(st, "customSounds", f)
          IN IF sounds.threw THEN sounds
             ELSE IF IsNull(sounds.value) THEN Normal(<<>>, st)
             ELSE Parse(Val(sounds.value), st),
          <<>>)

saveCustomSounds(st, sounds, f) ==
    Catch(setItem(st, "customSounds", Json(sounds), f), Null)

addCustomSound(st, snd, f) ==
    Catch(LET existingSounds == getCustomSounds(st, f)
          IN IF existingSounds.threw THEN existingSounds
             ELSE saveCustomSounds(existingSounds.store,
                                   Append(existingSounds.value, snd), f),
          Null)

\* removeCustomSound(soundId), lines 386-394: the first of the two properties
\* of that name in the object literal
Filter(sounds, soundId) == SelectSeq(sounds, LAMBDA x : x.id # soundId)
removeCustomSound_soundId(st, soundId, f) ==
    Catch(LET existingSounds == getCustomSounds(st, f)
          IN IF existingSounds.threw THEN existingSounds
             ELSE saveCustomSounds(existingSounds.store,
                                   Filter(existingSounds.value, soundId), f),
          Null)

getSelectedSound(st, f) ==
    Catch(LET sound_ == getItem(st, "selectedSound", f)
          IN IF sound_.threw THEN sound_
             ELSE IF IsNull(sound_.value) THEN Normal(Null, st)
             ELSE LET parsed == Parse(Val(sound_.value), st)
                  IN IF parsed.threw THEN parsed
                     ELSE Normal(Some(parsed.value), st),
          Null)

saveSelectedSound(st, snd, f) ==
    Catch(setItem(st, "selectedSound", Json(snd), f), Null)

\* the legacy key 'enfoque_custom_sound'
getCustomSound(st, f) == Catch(getItem(st, "customSound", f), Null)

saveCustomSound(st, soundUri, f) ==
    Catch(setItem(st, "customSound", soundUri, f), Null)

\* removeCustomSound(), lines 433-439: the second property of that name.  In
\* an object literal the last property of a name is the one the object has,
\* so this is what StorageService.removeCustomSound(soundId) runs; it takes
\* no argument.
removeCustomSound(st, soundId, f) ==
    Catch(removeItem(st, "customSound", f), Null)

getLanguage(st, f) ==
    Catch(LET language == getItem(st, "language", f)
          IN IF language.threw THEN language
             ELSE IF IsNull(language.value) \/ language.value = Some("")
             THEN Normal("en", st)
             ELSE Normal(Val(language.value), st),
          "en")

saveLanguage(st, language, f) ==
    Catch(setItem(st, "language", language, f), Null)

\* whether AsyncStorage rejected something in a call
Failed(f) == f.get \/ f.set

\* what a call leaves in ret
Return(op, arg, f, r) ==
    [op |-> op, arg |-> arg, failed |-> Failed(f), threw |-> r.threw,
     value |-> r.value, readLegacy |-> FALSE]

\* what a StorageService call leaves alone
storageFrame == <<screenVars, audioVars, timerVars, inFlight, quiet, alert, lastEvent,
                  screenSound>>

\* the StorageService calls of the screens
CallGetActivities(f) ==
    LET r == getActivities(store, f)
    IN /\ store' = r.store
       /\ ret' = Return("getActivities", Null, f, r)
       /\ UNCHANGED storageFrame
CallSaveActivities(acts, f) ==
    LET r == saveActivities(store, acts, f)
    IN /\ store' = r.store
       /\ ret' = Return("saveActivities", Null, f, r)
       /\ UNCHANGED storageFrame
CallGetCustomSounds(f) ==
    LET r == getCustomSounds(store, f)
    IN /\ store' = r.store
       /\ ret' = Return("getCustomSounds", Null, f, r)
       /\ UNCHANGED storageFrame
\* pickSound of the settings screen: the id is custom_${Date.now()}, later
\* than the time in the id of every sound uploaded before
CallAddCustomSound(t, f) ==
    LET r == addCustomSound(store, CustomSound(t), f)
    IN /\ IF IsNull(store.customSounds) THEN TRUE
          ELSE IF ~Val(store.customSounds).parses THEN TRUE
          ELSE \A i \in 1..Len(Val(store.customSounds).data) :
                   Val(store.customSounds).data[i].id[2] < t
       /\ store' = r.store
       /\ ret' = Return("addCustomSound", Some(CustomId(t)), f, r)
       /\ UNCHANGED storageFrame
\* confirmRemove of the settings screen
CallRemoveCustomSound(soundId, f) ==
    LET r == removeCustomSound(store, soundId, f)
    IN /\ store' = r.store
       /\ ret' = Return("removeCustomSound", Some(soundId), f, r)
       /\ UNCHANGED storageFrame
CallGetSelectedSound(f) ==
    LET r == getSelectedSound(store, f)
    IN /\ store' = r.store
       /\ ret' = Return("getSelectedSound", Null, f, r)
       /\ UNCHANGED storageFrame
CallSaveSelectedSound(snd, f) ==
    LET r == saveSelectedSound(store, snd, f)
    IN /\ store' = r.store
       /\ ret' = Return("saveSelectedSound", Null, f, r)
       /\ UNCHANGED storageFrame
CallGetCustomSound(f) ==
    LET r == getCustomSound(store, f)
    IN /\ store' = r.store
       /\ ret' = Return("getCustomSound", Null, f, r)
       /\ UNCHANGED storageFrame
CallSaveCustomSound(f) ==
    LET r == saveCustomSound(store, LegacyUri, f)
    IN /\ store' = r.store
       /\ ret' = Return("saveCustomSound", Null, f, r)
       /\ UNCHANGED storageFrame
CallGetLanguage(f) ==
    LET r == getLanguage(store, f)
    IN /\ store' = r.store
       /\ ret' = Return("getLanguage", Null, f, r)
       /\ UNCHANGED storageFrame
CallSaveLanguage(language, f) ==
    LET r == saveLanguage(store, language, f)
    IN /\ store' = r.store
       /\ ret' = Return("saveLanguage", Null, f, r)
       /\ UNCHANGED storageFrame

\* loadData of a FocusScreen that has just been mounted (its state is that of
\* useState), with the StorageService above.  Promise.all rejects, and the
\* catch of loadData runs, if one of its four calls throws.
loadDataFromStorage(f) ==
    LET loadedActivities == getActivities(store, f)
        loadedSound == getSelectedSound(loadedActivities.store, f)
        customSounds == getCustomSounds(loadedSound.store, f)
        legacySound == getCustomSound(customSounds.store, f)
        saved == saveSelectedSound(legacySound.store,
                                   LegacySoundOption(Val(legacySound.value)), f)
        all == loadedActivities.threw \/ loadedSound.threw \/ customSounds.threw
        readLegacy == ~all /\ IsNull(loadedSound.value)
        migrate == IF readLegacy /\ ~legacySound.threw
                   THEN ~IsNull(legacySound.value) ELSE FALSE
    IN /\ activities' = IF all THEN <<>> ELSE loadedActivities.value.items
       /\ screenSound' =
              IF all THEN Null
              ELSE IF ~readLegacy THEN loadedSound.value
              ELSE IF legacySound.threw THEN Null
              ELSE IF migrate THEN Some(LegacySoundOption(Val(legacySound.value)))
              ELSE Some(StoredDefault)
       /\ store' = IF migrate THEN saved.store ELSE customSounds.store
       /\ ret' = [op |-> "loadData", arg |-> Null, failed |-> Failed(f),
                  threw |-> FALSE, value |-> Null, readLegacy |-> readLegacy]
       /\ UNCHANGED <<screenVars, timerVars, inFlight, quiet, alert, lastEvent,
                      platformOS, sound, objects, isTestingSound, cascade,
                      currentActivity, showBreakModal>>

\* an installation: nothing stored yet, or what an earlier version or a
\* damaged file left behind
InitialStores ==
    [activities : {Null, Some(Unparsable)},
     customSounds : {Null, Some(Unparsable)},
     selectedSound : {Null, Some(Unparsable)},
     customSound : {Null, Some(LegacyUri)},
     language : {Null}]

StorageInit ==
    /\ ScreenInit
    /\ platformOS = "mobile"
    /\ activities = <<>>
    /\ sound = Null
    /\ objects = [i \in 1..MaxObjects |-> "free"]
    /\ isTestingSound = FALSE
    /\ cascade = NoCall
    /\ currentActivity = Null
    /\ showBreakModal = FALSE
    /\ backgroundTimer = Null
    /\ timers = <<>>
    /\ inFlight = [c \in 1..MaxInFlight |-> Idle]
    /\ quiet = FALSE
    /\ store \in InitialStores
    /\ ret = NoReturn
    /\ screenSound = Null

StorageNext ==
    \/ \E f \in StoreFailures : CallGetActivities(f)
    \/ \E a \in ActivityLists, f \in StoreFailures : CallSaveActivities(a, f)
    \/ \E f \in StoreFailures : CallGetCustomSounds(f)
    \/ \E t \in 1..MaxSounds, f \in StoreFailures : CallAddCustomSound(t, f)
    \/ \E t \in 1..MaxSounds, f \in StoreFailures :
           CallRemoveCustomSound(CustomId(t), f)
    \/ \E f \in StoreFailures : CallGetSelectedSound(f)
    \/ \E snd \in StoredSounds, f \in StoreFailures : CallSaveSelectedSound(snd, f)
    \/ \E f \in StoreFailures : CallGetCustomSound(f)
    \/ \E f \in StoreFailures : CallSaveCustomSound(f)
    \/ \E f \in StoreFailures : CallGetLanguage(f)
    \/ \E l \in Languages, f \in StoreFailures : CallSaveLanguage(l, f)
    \/ \E f \in StoreFailures : loadDataFromStorage(f)

StorageSpec == StorageInit /\ [][StorageNext]_vars

\* ---------------------------------------------------------- background timer
\* startBackgroundTimer and stopBackgroundTimer of AudioService (audio.ts,
\* lines 325-344).  Each call of startBackgroundTimer installs an interval of
\* its own, whose callback holds that call's duration and onComplete; the
\* field backgroundTimer holds the interval of the last call.
startBackgroundTimer(duration) ==
    /\ Len(timers) < MaxTimers
    /\ IF platformOS # "web"
       THEN /\ timers' = Append(timers, [duration |-> duration, cleared |-> FALSE,
                                         completions |-> 0])
            /\ backgroundTimer' = Some(Len(timers) + 1)
       ELSE UNCHANGED timerVars
    /\ lastEvent' = "startBackgroundTimer"
    /\ UNCHANGED <<screenVars, audioVars, storageVars, inFlight, quiet, alert>>

stopBackgroundTimer ==
    /\ timers' = ClearInterval(timers, backgroundTimer)
    /\ backgroundTimer' = Null
    /\ lastEvent' = "stopBackgroundTimer"
    /\ UNCHANGED <<screenVars, audioVars, storageVars, inFlight, quiet, alert>>

\* the callback of the interval of call id, a second after its last run
OnInterval(id) ==
    LET duration == timers[id].duration - 1
        counted == [timers EXCEPT ![id].duration = duration]
    IN IF duration <= 0
       THEN /\ timers' = [ClearInterval(counted, backgroundTimer) EXCEPT
                             ![id].completions = @ + 1]
            /\ backgroundTimer' = Null
       ELSE /\ timers' = counted
            /\ UNCHANGED backgroundTimer

TimerFires(id) ==
    /\ id \in 1..Len(timers)
    /\ ~timers[id].cleared
    /\ timers[id].completions < MaxCompletions
    /\ OnInterval(id)
    /\ lastEvent' = "timerFires"
    /\ UNCHANGED <<screenVars, audioVars, storageVars, inFlight, quiet, alert>>

TimerInit ==
    /\ ScreenInit
    /\ ServiceInit
    /\ platformOS \in PlatformOSes
    /\ activities = <<>>

TimerNext ==
    \/ \E duration \in 1..MaxDuration : startBackgroundTimer(duration)
    \/ stopBackgroundTimer
    \/ \E id \in 1..MaxTimers : TimerFires(id)
    \/ \E f \in Failures : cleanup(f)

TimerSpec == TimerInit /\ [][TimerNext]_vars

\* ------------------------------------------------- AudioService, step by step
\* playSound, testSound and preloadSound of audio.ts on a mobile platform with
\* a custom SoundOption (FileSound), followed from one await to the next, so
\* that two calls interleave as the event loop lets them.  No call of expo-av
\* rejects here.  An unloaded object is marked "unloaded" and its id is not
\* given out again, so that a handle a call kept names the same object for
\* the whole call.
AsyncOps == {"playSound", "testSound", "preloadSound"}
\* the Audio.Sound objects that hold a loaded sound
Handles(objs) == {i \in 1..MaxObjects : objs[i] \in {"loaded", "playing", "looping"}}

\* the call up to its first await: testSound sets isTestingSound; with a
\* stored handle the call waits for this.sound.unloadAsync(), without one
\* for Audio.Sound.createAsync
Begin(c, op) ==
    /\ inFlight[c].op = "none"
    /\ isTestingSound' = IF op = "testSound" THEN TRUE ELSE isTestingSound
    /\ inFlight' = [inFlight EXCEPT ![c] =
                       IF IsNull(sound)
                       THEN [op |-> op, pc |-> "create", target |-> Null]
                       ELSE [op |-> op, pc |-> "unload", target |-> sound]]
    /\ lastEvent' = op
    /\ UNCHANGED <<screenVars, storageVars, timerVars, quiet, alert, platformOS, sound,
                   objects, cascade, activities, currentActivity, showBreakModal>>

\* unloadAsync resolves: this.sound = null, then the call waits for createAsync
UnloadResolves(c) ==
    /\ inFlight[c].pc = "unload"
    /\ objects' = [objects EXCEPT ![Val(inFlight[c].target)] = "unloaded"]
    /\ sound' = Null
    /\ inFlight' = [inFlight EXCEPT ![c].pc = "create", ![c].target = Null]
    /\ lastEvent' = "unloadResolves"
    /\ UNCHANGED <<screenVars, storageVars, timerVars, quiet, alert, platformOS,
                   isTestingSound, cascade, activities, currentActivity,
                   showBreakModal>>

\* createAsync resolves: this.sound = sound; playSound goes on to wait for
\* sound.playAsync(), testSound (shouldPlay: true, isLooping: true) and
\* preloadSound return
CreateResolves(c) ==
    /\ inFlight[c].pc = "create"
    /\ FreeIds(objects) # {}
    /\ LET id == NewId(objects)
       IN /\ objects' = [objects EXCEPT ![id] = IF inFlight[c].op = "testSound"
                                                THEN "looping" ELSE "loaded"]
          /\ sound' = Some(id)
          /\ inFlight' = [inFlight EXCEPT ![c] =
                             IF inFlight[c].op = "playSound"
                             THEN [op |-> "playSound", pc |-> "play", target |-> Some(id)]
                             ELSE Idle]
    /\ lastEvent' = "createResolves"
    /\ UNCHANGED <<screenVars, storageVars, timerVars, quiet, alert, platformOS,
                   isTestingSound, cascade, activities, currentActivity,
                   showBreakModal>>

\* sound.playAsync() settles.  It resolves if the object is still loaded, and
\* playSound schedules the notification and returns; it rejects if another
\* call has unloaded the object, and the catch falls through to
\* playSystemNotification, whose tone is one more object.
PlayResolves(c) ==
    /\ inFlight[c].pc = "play"
    /\ IF objects[Val(inFlight[c].target)] = "loaded"
       THEN objects' = [objects EXCEPT ![Val(inFlight[c].target)] = "playing"]
       ELSE /\ FreeIds(objects) # {}
            /\ objects' = playSystemNotification(objects, NoFailure).objects
    /\ inFlight' = [inFlight EXCEPT ![c] = Idle]
    /\ lastEvent' = "playResolves"
    /\ UNCHANGED <<screenVars, storageVars, timerVars, quiet, alert, platformOS, sound,
                   isTestingSound, cascade, activities, currentActivity,
                   showBreakModal>>

RaceInit ==
    /\ ScreenInit
    /\ ServiceInit
    /\ platformOS = "mobile"
    /\ activities = <<>>

RaceNext ==
    \/ \E c \in 1..MaxInFlight, op \in AsyncOps : Begin(c, op)
    \/ \E c \in 1..MaxInFlight : UnloadResolves(c)
    \/ \E c \in 1..MaxInFlight : CreateResolves(c)
    \/ \E c \in 1..MaxInFlight : PlayResolves(c)

RaceSpec == RaceInit /\ [][RaceNext]_vars

\* ------------------------------------------------------- a session left alone
\* FocusScreen in the foreground, with the completion flow that follows a
\* countdown to zero.  The user touches the screen until they leave it alone
\* (quiet); from then on only the timers of the program run.  An installed
\* interval fires (setInterval), the awaits of handleTimerComplete settle and
\* the timeout of the fallback tone runs: these are the fairness conditions.
UserSetTask(text) == ~quiet /\ setTask(text)
UserToggleTimer == ~quiet /\ toggleTimer
UserResetTimer == ~quiet /\ resetTimer
UserDurationSelect(duration) == ~quiet /\ handleDurationSelect(duration)

\* the last touch has been made
Leave ==
    /\ ~quiet
    /\ quiet' = TRUE
    /\ UNCHANGED <<screenVars, audioVars, storageVars, timerVars, inFlight, alert,
                   lastEvent>>

\* handleTimerComplete, which the tick that reached zero has called, runs on
\* past its awaits
Rewarded ==
    /\ lastEvent = "complete"
    /\ handleTimerComplete(Null, NoFailure)

ToneEnds == \E id \in 1..MaxObjects : BeepTimeout(id)

LiveNext ==
    \/ \E text \in TaskTexts : UserSetTask(text)
    \/ UserToggleTimer
    \/ UserResetTimer
    \/ \E i \in 1..NumDurations : UserDurationSelect(durations[i])
    \/ Leave
    \/ Tick
    \/ Rewarded
    \/ ToneEnds

LiveSpec ==
    /\ Init
    /\ [][LiveNext]_vars
    /\ WF_vars(Tick)
    /\ WF_vars(Rewarded)
    /\ WF_vars(ToneEnds)

\* ------------------------------------------------------------ properties
\* C1: after a start from timeLeft = D > 0 and then nothing but ticks, fewer
\* than D ticks leave the session running with D - ticks seconds left and no
\* call of handleTimerComplete, and exactly D ticks leave timeLeft = 0,
\* isRunning false and exactly one call of handleTimerComplete.
C1_CountdownCompletesOnce ==
    (~IsNull(session) /\ Val(session).d > 0) =>
        LET r == Val(session)
        IN IF r.ticks = r.d
           THEN timeLeft = 0 /\ ~isRunning /\ r.completions = 1
           ELSE /\ r.ticks < r.d
                /\ timeLeft = r.d - r.ticks /\ isRunning /\ r.completions = 0
C1_Witness ==
    ~IsNull(session) /\ Val(session).d > 0 /\ Val(session).ticks = Val(session).d

\* C2: handleTimerComplete is called at most once between two settings of
\* timeLeft from a duration (resetTimer, handleDurationSelect), whatever ticks,
\* app-state changes, starts and pauses happen in between.
C2_CompletionAtMostOnce == completeCalls <= 1
C2_Witness ==
    completeCalls = 1 /\ timeLeft = 0 /\ isRunning /\ PeriodClosed /\ Val(period).running

\* C3: timeLeft is never negative.
C3_TimeLeftNonNegative == timeLeft >= 0
C3_Witness == timeLeft = 0 /\ lastEvent = "complete" /\ ~isRunning

\* C4 (claim as stated): when the app leaves the foreground with the session
\* running and returns N whole seconds later with no tick in between, timeLeft
\* after the return is its value at leaving minus min(N, that value).
C4_ForegroundSubtractsElapsed ==
    (PeriodClosed /\ Val(period).running /\ Val(period).ticks = 0) =>
        timeLeft = Val(period).timeLeft - Min(Val(period).elapsed, Val(period).timeLeft)

\* C5 (claim as stated): when the app returns to the foreground with the session
\* running and at least as many whole seconds elapsed as were left, that return
\* calls handleTimerComplete and leaves isRunning false, with no tick needed.
C5_ForegroundCompletes ==
    (/\ PeriodClosed /\ Val(period).running /\ Val(period).ticks = 0
     /\ Val(period).timeLeft > 0
     /\ Val(period).elapsed >= Val(period).timeLeft) =>
        Val(period).fired /\ ~isRunning

\* C6 (claim as stated): for every stay out of the foreground, the ticks that
\* ran during the stay plus the seconds the return took off timeLeft do not
\* exceed the whole seconds the stay lasted.
C6_NoDoubleAccounting ==
    PeriodClosed => Val(period).ticks + Val(period).comp <= Val(period).elapsed

\* a step of the AppState listener
AppStateStep == now' = now /\ lastEvent' \in {"appState", "foreground"}
\* the seconds an AppState step may take off timeLeft: the whole seconds of the
\* stay it ends, nothing when it ends no stay
Budget == IF PeriodOpen /\ appState' = "active"
          THEN (now - Val(period).at) \div 1000 ELSE 0

\* C7: an AppState event takes off timeLeft at most the whole seconds of the
\* stay out of the foreground it ends, and nothing when it ends none (a second
\* 'active' event, a change between inactive and background, a stay of no
\* duration); an event that does change timeLeft leaves the timestamp null.
C7_NoDoubleSubtraction ==
    [][AppStateStep =>
          /\ timeLeft - timeLeft' <= Budget
          /\ timeLeft' # timeLeft => IsNull(backgroundStartTime')]_vars
C7_Witness ==
    /\ PeriodClosed /\ Val(period).running /\ isRunning
    /\ Val(period).again /\ Val(period).elapsed = 0

\* C8: backgroundStartTime is null after every return to the foreground,
\* whether or not a session runs, and after start, reset and completion.
C8_TimestampCleared ==
    lastEvent \in {"foreground", "start", "reset", "complete"} =>
        IsNull(backgroundStartTime)
C8_Witness ==
    /\ lastEvent = "foreground" /\ isRunning /\ timeLeft > 0
    /\ PeriodClosed /\ Val(period).running /\ Val(period).elapsed > 0

\* a label that is empty or made of spaces only
Blank(s) == \A i \in 1..Len(s) : s[i] = " "
\* a step of toggleTimer
ToggleStep == now' = now /\ lastEvent' \in {"rejected", "start", "pause"}

C10_PausePreserves ==
    [][/\ (ToggleStep /\ ~Blank(task) /\ isRunning) =>
              (~isRunning' /\ timeLeft' = timeLeft)
       /\ (~isRunning /\ timeLeft' # timeLeft) => lastEvent' \in {"reset", "select"}
       /\ (ToggleStep /\ ~isRunning) => timeLeft' = timeLeft]_vars
C10_Witness ==
    /\ lastEvent = "start" /\ isRunning
    /\ 0 < timeLeft /\ timeLeft < DurationSeconds(selectedDuration)

\* C11 (claim as stated): a press of the pause button while isRunning leaves
\* isRunning false and no interval installed, whatever the task label holds.
C11_PauseUnconditional ==
    [][(ToggleStep /\ isRunning) => (~isRunning' /\ IsNull(intervalRef'))]_vars

\* a step of resetTimer
ResetStep == now' = now /\ lastEvent' = "reset"

\* C12: resetTimer runs only while isRunning is false, and it leaves timeLeft
\* at the selected duration in seconds, isRunning false, backgroundStartTime
\* null and no interval installed.
C12_ResetWhenStopped ==
    [][ResetStep =>
          /\ ~isRunning
          /\ timeLeft' = DurationSeconds(selectedDuration)
          /\ selectedDuration' = selectedDuration
          /\ ~isRunning'
          /\ IsNull(backgroundStartTime')
          /\ IsNull(intervalRef')]_vars
C12_Witness ==
    /\ lastEvent = "reset" /\ timeLeft = DurationSeconds(selectedDuration)
    /\ now > IntervalMs /\ Trim(task) # <<>>

\* the calls pair up from held: no deactivate while nothing is held; an
\* activate while it is held renews the acquisition
RECURSIVE Paired(_, _)
Paired(held, calls) ==
    IF calls = <<>> THEN TRUE
    ELSE IF Head(calls) = "activate" THEN Paired(TRUE, Tail(calls))
    ELSE held /\ Paired(FALSE, Tail(calls))

\* C13 (claim as stated): in every handler that runs after the mount (start,
\* tick, pause, reset, completion, unmount) each deactivateKeepAwake is made
\* while the keep-awake is held, so once per acquisition, and nothing is held
\* after the screen unmounted.
C13_KeepAwakePaired ==
    /\ lastEvent # "mount" => Paired(keepAwakeLog.held, keepAwakeLog.calls)
    /\ ~mounted => ~keepAwake

\* C14: the keep-awake is held whenever isRunning with timeLeft > 0 on the
\* mounted screen; whenever isRunning is false or the screen has unmounted it
\* is not held and no interval is installed.
C14_KeepAwakeWhileRunning ==
    /\ (mounted /\ isRunning /\ timeLeft > 0) => keepAwake
    /\ (~isRunning \/ ~mounted) => (~keepAwake /\ IsNull(intervalRef))
C14_Witness ==
    ~mounted /\ isRunning /\ timeLeft > 0 /\ keepAwakeLog.held /\ now > IntervalMs

\* C15 (claim as stated): a playSound call returns normally and leaves no
\* rejection unhandled, whatever the option, the platform and the failures of
\* unload, load, play, notification scheduling and tone generation.
C15_PlaySoundNeverThrows ==
    cascade.call = "playSound" => (~cascade.threw /\ ~cascade.unhandled)

\* C16 (claim as stated): when every audio load and play attempt of a
\* completion cascade fails, the cascade still vibrates or posts a
\* notification, and the completion flow goes on to the reward step.
C16_SilentButNotified ==
    (cascade.call = "playSound" /\ cascade.audioFails) =>
        /\ cascade.vibrated \/ cascade.notify # "none"
        /\ ~cascade.threw
        /\ cascade.reward # "none"

\* C17 (claim as stated): in a completion cascade the custom sound is tried
\* only for a non-default option with a uri, the fallback tone only if the
\* custom sound failed or was not tried, the vibration only if no sound played;
\* when the custom sound played there is neither tone nor vibration.
C17_LinearFallback ==
    cascade.call = "playSound" =>
        /\ cascade.custom # "skipped" => cascade.applicable
        /\ cascade.tone # "none" => cascade.custom \in {"skipped", "failed"}
        /\ cascade.vibrated => (cascade.custom # "played" /\ cascade.tone # "played")
        /\ cascade.custom = "played" => (cascade.tone = "none" /\ ~cascade.vibrated)

\* C18 (claim as stated): on mobile every completion cascade schedules a
\* system notification, whether the custom sound played, failed or the default
\* sound is selected.
C18_NotificationOnMobile ==
    (platformOS = "mobile" /\ cascade.call = "playSound") => cascade.notify # "none"

\* C19 (claim as stated): after any sequence of playSound, testSound,
\* stopTestSound and cleanup calls, each run to its end, at most one cue is
\* playing and no audio object is loaded but the one this.sound holds.
C19_SingleCue ==
    /\ Cardinality(Audible(objects)) <= 1
    /\ \A id \in Loaded(objects) : sound = Some(id)

\* the ids of a pool
PoolIds(p) == {p[i] : i \in 1..Len(p)}

\* C20: getNewActivity with two or more activities leaves a current activity
\* of the pool that differs from the one before; with exactly one activity
\* the current activity is that activity.
C20_NewActivityDiffers ==
    [][lastEvent' = "getNewActivity" =>
          IF Len(activities) >= 2
          THEN /\ currentActivity' # currentActivity
               /\ ~IsNull(currentActivity')
               /\ Val(currentActivity') \in PoolIds(activities)
          ELSE Len(activities) = 1 => currentActivity' = Some(activities[1])]_vars
C20_Witness ==
    /\ lastEvent = "getNewActivity" /\ Len(activities) = MaxActivities
    /\ currentActivity = Some(activities[1]) /\ showBreakModal

\* C21: every completion produces one reward outcome: with activities, the
\* break modal with a current activity of the list; with none, the 'Focus
\* Session Complete!' message and no modal.
C21_OneRewardOutcome ==
    lastEvent = "reward" =>
        IF Len(activities) > 0
        THEN /\ cascade.reward = "modal" /\ showBreakModal
             /\ ~IsNull(currentActivity)
             /\ Val(currentActivity) \in PoolIds(activities)
        ELSE /\ cascade.reward = "alert" /\ alert = "Focus Session Complete!"
             /\ ~showBreakModal /\ IsNull(currentActivity)
C21_Witness ==
    /\ lastEvent = "reward" /\ Len(activities) = 1
    /\ showBreakModal /\ currentActivity = Some(activities[1])

\* a step of handleDurationSelect
SelectStep == now' = now /\ lastEvent' = "select"

\* C22: handleDurationSelect while isRunning is false sets selectedDuration to
\* the chosen entry and timeLeft to its seconds (30 for the 30s entry) and
\* leaves isRunning false; while isRunning it changes neither.
C22_DurationSelect ==
    [][SelectStep =>
          IF ~isRunning
          THEN /\ \E i \in 1..Len(durations) : selectedDuration' = durations[i]
               /\ timeLeft' = DurationSeconds(selectedDuration')
               /\ selectedDuration' = durations[1] => timeLeft' = 30
               /\ ~isRunning'
          ELSE UNCHANGED <<selectedDuration, timeLeft, isRunning>>]_vars
C22_Witness ==
    /\ lastEvent = "select" /\ isRunning /\ selectedDuration = InitialDuration
    /\ timeLeft < DurationSeconds(InitialDuration)

\* C23 (claim as stated): while isRunning stays true neither the task label
\* nor the selected duration changes.
C23_ConfigImmutable ==
    [][(isRunning /\ isRunning') => UNCHANGED <<task, selectedDuration>>]_vars

\* whether a read of a JSON key finds nothing it can use: getItem rejects, or
\* JSON.parse rejects what is stored
Unreadable(st, key, f) ==
    IF f.get THEN TRUE
    ELSE IF IsNull(st[key]) THEN FALSE
    ELSE ~Val(st[key]).parses

\* C24: no StorageService method throws; a read whose getItem rejects or whose
\* stored string does not parse returns its default ([] for the lists, null
\* for the selected and the legacy sound, 'en' for the language); a write
\* whose setItem or removeItem rejects returns normally and leaves the store
\* as it was.  Stated for the last call made and, over every reachable store,
\* for every method with every outcome of AsyncStorage.
C24_StorageNeverThrows ==
    /\ ~ret.threw
    /\ \A f \in StoreFailures :
        /\ ~getActivities(store, f).threw
        /\ Unreadable(store, "activities", f) =>
               getActivities(store, f).value = NoActivities
        /\ ~getCustomSounds(store, f).threw
        /\ Unreadable(store, "customSounds", f) =>
               getCustomSounds(store, f).value = <<>>
        /\ ~getSelectedSound(store, f).threw
        /\ Unreadable(store, "selectedSound", f) =>
               getSelectedSound(store, f).value = Null
        /\ ~getCustomSound(store, f).threw
        /\ f.get => getCustomSound(store, f).value = Null
        /\ ~getLanguage(store, f).threw
        /\ f.get => getLanguage(store, f).value = "en"
        /\ \A w \in {saveActivities(store, NoActivities, f),
                     saveCustomSounds(store, <<>>, f),
                     addCustomSound(store, CustomSound(MaxSounds), f),
                     removeCustomSound(store, CustomId(1), f),
                     saveSelectedSound(store, StoredDefault, f),
                     saveCustomSound(store, LegacyUri, f),
                     saveLanguage(store, "es", f)} :
               /\ ~w.threw
               /\ f.set => w.store = store
C24_Witness ==
    /\ ret.op = "getCustomSounds" /\ ~ret.failed /\ ~ret.threw
    /\ store.customSounds = Some(Unparsable)
    /\ ret.value = <<>>

\* whether the stored SoundOption list has an entry with this id
Listed(st, soundId) ==
    LET sounds == getCustomSounds(st, NoStoreFailure).value
    IN \E i \in 1..Len(sounds) : sounds[i].id = soundId
\* every entry of the stored list of st, but the one with this id, is in that of st2
OthersKept(st, st2, soundId) ==
    LET sounds == getCustomSounds(st, NoStoreFailure).value
    IN \A i \in 1..Len(sounds) :
           sounds[i].id # soundId => Listed(st2, sounds[i].id)

\* C25 (claim as stated): a load that finds no selected sound but a legacy
\* uri selects the converted SoundOption and adds it to the stored SoundOption
\* list; a load after the migration does not read the legacy key.
C25_LegacyMigrated ==
    [][(ret'.op = "loadData" /\ ~ret'.failed) =>
          /\ (IsNull(store.selectedSound) /\ ~IsNull(store.customSound)) =>
                 /\ screenSound' = Some(LegacySoundOption(Val(store.customSound)))
                 /\ Listed(store', LegacyId)
          /\ store.selectedSound = Some(Json(LegacySoundOption(LegacyUri))) =>
                 ~ret'.readLegacy]_vars

\* C26 (claim as stated): a call that is not a removal keeps every entry of
\* the stored custom-sound list, addCustomSound puts its sound there, and
\* after removeCustomSound(id) the list has no entry with that id and keeps
\* the others.  Stated for calls in which AsyncStorage rejects nothing.
C26_CustomSoundLifetime ==
    [][~ret'.failed =>
          IF ret'.op = "removeCustomSound"
          THEN /\ ~Listed(store', Val(ret'.arg))
               /\ OthersKept(store, store', Val(ret'.arg))
          ELSE /\ OthersKept(store, store', LegacyId)
               /\ ret'.op = "addCustomSound" => Listed(store', Val(ret'.arg))]_vars

\* C28 (claim as stated): from every state in which the session is running and
\* the user has left the screen alone in the foreground, the session comes to
\* isRunning = false with handleTimerComplete run to its reward (the modal or
\* the message).  Stated for the sessions whose end the clock of the model
\* reaches.
C28_EventuallyRewarded ==
    (quiet /\ isRunning /\ Foreground
           /\ now + timeLeft * IntervalMs <= MaxSeconds * IntervalMs)
        ~> (~isRunning /\ lastEvent = "reward")

\* C29 (claim as stated): under every interleaving of two of playSound,
\* testSound and preloadSound, every Audio.Sound that holds a loaded sound is
\* the one the static field sound holds: at most one loaded handle exists.
C29_SingleLoadedHandle ==
    \A id \in Handles(objects) : sound = Some(id)

\* C30 (claim as stated): the onComplete of a startBackgroundTimer call is
\* invoked at most once and its interval is cleared when it is invoked, also
\* when another call follows before the timer has finished.
C30_OnCompleteOnce ==
    \A id \in 1..Len(timers) :
        /\ timers[id].completions <= 1
        /\ timers[id].completions = 1 => timers[id].cleared

\* C27 (claim as stated): isRunning implies timeLeft > 0.
C27_RunningHasTimeLeft == isRunning => timeLeft > 0

TypeOK ==
    /\ task \in TaskTexts
    /\ timeLeft \in Int
    /\ isRunning \in BOOLEAN
    /\ appState \in AppStates
    /\ keepAwake \in BOOLEAN
    /\ mounted \in BOOLEAN
====
